---- MODULE Spec2Model ----
(***************************************************************************)
(* Model of the image-annotation workflow of text_detector.py:             *)
(* get_image_uris lists the bucket, classifies the objects                 *)
(* (get_image_blobs), and runs process_blob on every candidate input:      *)
(* download, text detection, preprocessing fallback, draw_bounding_boxes,  *)
(* upload_processed_image.                                                 *)
(*                                                                         *)
(* Object names are sequences of one-character strings, so that            *)
(* str.split, str.lower, str.endswith, the "in" substring test and         *)
(* os.path.splitext are computed character by character.                   *)
(*                                                                         *)
(* The text-detection service and the imaging library are external: an     *)
(* object's content is a record saying what they do with these bytes       *)
(* (whether PIL can open them, the response to the bytes, the response to  *)
(* the preprocessed bytes).  Download failures are transient and chosen    *)
(* per call.  Uploads are taken to succeed.                                *)
(***************************************************************************)
EXTENDS Integers, Sequences, FiniteSets, TLC

\* ------------------------------------------------------------- bounds
\* Largest number of objects in the bucket before the first request.
MaxObjs == 3
\* Largest number of text fragments the detection service returns.
MaxFrag == 2
\* Number of requests served one after the other in Spec.
MaxRuns == 2
\* Largest number of objects in the bucket before two concurrent requests.
MaxObjsC == 3

\* ------------------------------------------------------------ strings
\* The characters used in object names, in code-point order.
Chars == << ".", "/", "G", "J", "P", "_", "a", "b", "d", "e", "g", "j",
            "n", "o", "p", "s", "t", "x" >>

Ord(c) == CHOOSE i \in 1..Len(Chars) : Chars[i] = c

\* s < t in the bucket's listing order (lexicographic by code point).
RECURSIVE Less(_, _)
Less(s, t) ==
    IF t = << >> THEN FALSE
    ELSE IF s = << >> THEN TRUE
    ELSE IF Head(s) = Head(t) THEN Less(Tail(s), Tail(t))
    ELSE Ord(Head(s)) < Ord(Head(t))

\* The names of a set, in listing order.
RECURSIVE Sorted(_)
Sorted(S) ==
    IF S = {} THEN << >>
    ELSE LET m == CHOOSE x \in S : \A y \in S \ {x} : Less(x, y)
         IN  << m >> \o Sorted(S \ {m})

Range(s) == { s[i] : i \in 1..Len(s) }

\* sub occurs in s at position i.
OccursAt(s, sub, i) ==
    /\ i >= 1
    /\ i + Len(sub) - 1 <= Len(s)
    /\ \A k \in 1..Len(sub) : s[i + k - 1] = sub[k]

\* Python's `sub in s`.
Contains(s, sub) == \E i \in 1..(Len(s) + 1) : OccursAt(s, sub, i)

\* Python's s.split(sub)[0]: what precedes the first occurrence of sub,
\* the whole of s when sub does not occur.
SplitFirst(s, sub) ==
    IF Contains(s, sub)
    THEN LET i == CHOOSE j \in 1..(Len(s) + 1) :
                    /\ OccursAt(s, sub, j)
                    /\ \A k \in 1..(j - 1) : ~OccursAt(s, sub, k)
         IN  SubSeq(s, 1, i - 1)
    ELSE s

\* Python's str.lower on the characters of Chars.
LowerChar(c) ==
    CASE c = "G" -> "g"
      [] c = "J" -> "j"
      [] c = "P" -> "p"
      [] OTHER   -> c

Lower(s) == [ i \in 1..Len(s) |-> LowerChar(s[i]) ]

\* Python's s.endswith(suf).
EndsWith(s, suf) ==
    /\ Len(suf) <= Len(s)
    /\ SubSeq(s, Len(s) - Len(suf) + 1, Len(s)) = suf

\* os.path.splitext(s)[0]: s without its extension.  The extension starts
\* at the last dot after the last "/", unless only dots precede that dot
\* in the last path component.
SplitExtRoot(s) ==
    LET seps == { i \in 1..Len(s) : s[i] = "/" }
        sep  == IF seps = {} THEN 0
                ELSE CHOOSE i \in seps : \A j \in seps : j <= i
        dots == { i \in (sep + 1)..Len(s) : s[i] = "." }
        dot  == IF dots = {} THEN 0
                ELSE CHOOSE i \in dots : \A j \in dots : j <= i
    IN  IF dot = 0 THEN s
        ELSE IF \A k \in (sep + 1)..(dot - 1) : s[k] = "." THEN s
        ELSE SubSeq(s, 1, dot - 1)

\* ---------------------------------------------------- names and marker
Marker == << "_", "_", "b", "o", "x", "e", "d", ".", "p", "n", "g" >>

Dot == << "." >>

ImageExtensions ==
    { << ".", "p", "n", "g" >>, << ".", "j", "p", "g" >>,
      << ".", "j", "p", "e", "g" >>, << ".", "b", "m", "p" >>,
      << ".", "g", "i", "f" >>, << ".", "w", "e", "b", "p" >> }

\* "__boxed.png" in blob.name
IsBoxed(name) == Contains(name, Marker)

\* blob.name.lower().endswith(('.png', '.jpg', '.jpeg', '.bmp', '.gif', '.webp'))
HasImageExtension(name) ==
    \E e \in ImageExtensions : EndsWith(Lower(name), e)

\* boxed_blobs: the set comprehension of get_image_blobs.
BoxedBlobs(blobs) ==
    { SplitFirst(blobs[i], Marker) : i \in { j \in 1..Len(blobs) : IsBoxed(blobs[j]) } }

\* The filter of the image_blobs list comprehension.
NeedsProcessing(name, boxed) ==
    /\ ~IsBoxed(name)
    /\ SplitFirst(name, Dot) \notin boxed
    /\ HasImageExtension(name)

\* image_blobs of get_image_blobs: the blobs to process, in listing order.
ImageBlobs(blobs) ==
    LET boxed == BoxedBlobs(blobs)
    IN  SelectSeq(blobs, LAMBDA n : NeedsProcessing(n, boxed))

\* The output name without the marker: the input's base name and ".png".
OutputBlobNameNoMarker(name) == SplitExtRoot(name) \o << ".", "p", "n", "g" >>

\* output_blob_name of upload_processed_image.
OutputBlobName(name) == SplitExtRoot(name) \o Marker

\* blob.public_url: the bucket's base URL followed by the name.
UrlBase == << "u", "r", "l", ":" >>

PublicUrl(name) == UrlBase \o name


\* ----------------------------------------------------------- contents
\* A detection response: response.error.message set or not, and the
\* number of entries of response.text_annotations.
Response(e, k) == [ err |-> e, n |-> k ]

\* The bytes of an object: whether PIL's Image.open can decode them, the
\* service's response to them, its response to their preprocessed form,
\* whether they are the output of preprocess_image_for_ocr, and the
\* polygons drawn on them.
Bytes(d, r1, r2) ==
    [ dec |-> d, first |-> r1, second |-> r2, pre |-> FALSE, boxes |-> << >> ]

NoText == Response(FALSE, 0)
Failed == Response(TRUE, 0)

\* Images with text found at once (one entry, or as many as the bound
\* allows), with text found only after
\* preprocessing, without text, rejected by the service at the first or at
\* the second call; bytes the service reads and PIL does not (no text, or
\* some).
Contents ==
    { Bytes(TRUE, Response(FALSE, k), NoText) : k \in { 1, MaxFrag } }
    \cup { Bytes(TRUE, NoText, Response(FALSE, MaxFrag)),
           Bytes(TRUE, NoText, NoText),
           Bytes(TRUE, Failed, NoText),
           Bytes(TRUE, NoText, Failed),
           Bytes(FALSE, NoText, NoText),
           Bytes(FALSE, Response(FALSE, 1), NoText) }

\* The content of objects that are never downloaded (earlier outputs,
\* files that are no images).
Opaque == Bytes(FALSE, Failed, Failed)

\* vision_client.document_text_detection(image): the service's response
\* to these bytes.
Detect(c) == IF c.pre THEN c.second ELSE c.first

\* response.text_annotations: entry 1 is the whole text, entries 2..n the
\* fragments.
Annotations(r) == [ k \in 1..r.n |-> k ]

\* preprocess_image_for_ocr followed by the PNG encoding of its result.
Preprocessed(c) == [ c EXCEPT !.pre = TRUE ]

\* draw_bounding_boxes: one closed line per entry of texts[1:], drawn on
\* the image decoded from image_content.
DrawBoundingBoxes(c, texts) ==
    [ c EXCEPT !.boxes = @ \o SubSeq(texts, 2, Len(texts)) ]

\* The bucket after an upload to the blob itself instead of output_blob.
UploadedInPlace(b, name, data) ==
    [ n \in (DOMAIN b) \cup { name } |-> IF n = name THEN data ELSE b[n] ]

\* The bucket after upload_from_file under the output name: the object is
\* created, or replaced when the name exists.
Uploaded(b, name, data) ==
    [ n \in (DOMAIN b) \cup { OutputBlobName(name) } |->
        IF n = OutputBlobName(name) THEN data ELSE b[n] ]

\* process_blob on downloaded bytes c, as a whole: "url" when it uploads
\* an output and returns its URL, "none" when it returns None, "raised"
\* when an exception leaves it.
ProcessBlob(c) ==
    IF Detect(c).err THEN "raised"
    ELSE IF Annotations(Detect(c)) /= << >>
         THEN IF c.dec THEN "url" ELSE "raised"
    ELSE IF ~c.dec THEN "raised"
    ELSE IF Annotations(Detect(Preprocessed(c))) /= << >> THEN "url"
    ELSE "none"

\* ------------------------------------------------------------- buckets
a_png     == << "a", ".", "p", "n", "g" >>
a_JPG     == << "a", ".", "J", "P", "G" >>
a_b_png   == << "a", ".", "b", ".", "p", "n", "g" >>
b_jpg     == << "b", ".", "j", "p", "g" >>
notes_txt == << "n", "o", "t", "e", "s", ".", "t", "x", "t" >>
a_boxed   == << "a" >> \o Marker

Names == { a_png, a_JPG, a_b_png, b_jpg, notes_txt, a_boxed }

\* The buckets holding the names of S: any content for what may be an
\* input, Opaque for the rest.
BucketsOver(S) ==
    { b \in [ S -> Contents \cup { Opaque } ] :
        \A n \in S : (b[n] = Opaque) <=> (IsBoxed(n) \/ ~HasImageExtension(n)) }

BucketsUpTo(k) ==
    UNION { BucketsOver(S) : S \in { T \in SUBSET Names : Cardinality(T) <= k } }


\* The names two concurrent requests are checked on.
NamesC == { a_png, a_JPG, b_jpg, a_boxed }

BucketsUpToC(k) ==
    UNION { BucketsOver(S) : S \in { T \in SUBSET NamesC : Cardinality(T) <= k } }

\* --------------------------------------------------------------- state
Procs == { 1, 2 }

VARIABLES
    bucket,       \* the bucket: object name -> content
    bucket0,      \* the bucket when the current request(s) started
    pc,           \* where each request is in get_image_uris / process_blob
    blobs,        \* get_image_uris: blobs (the listing, as names)
    image_blobs,  \* get_image_uris: image_blobs
    image_uris,   \* get_image_uris: image_uris
    idx,          \* position of the second for loop in image_blobs
    content,      \* process_blob: content
    texts,        \* process_blob: texts
    stream,       \* process_blob: img_with_boxes
    error,        \* what raised the exception that ended the request
    log,          \* per request: one entry per call of process_blob
    run,          \* number of the request being served (Spec)
    prev          \* the previous request: how it ended, what it returned

shared == << bucket, bucket0 >>
locals == << blobs, image_blobs, image_uris, idx, content, texts, stream >>
hist   == << run, prev >>
vars   == << bucket, bucket0, pc, blobs, image_blobs, image_uris, idx,
             content, texts, stream, error, log, run, prev >>

\* The blob process_blob is working on.
Blob(p) == image_blobs[p][idx[p]]

\* A new entry of the log: process_blob was called on name.
Entry(name) ==
    [ name |-> name, calls |-> 0, errs |-> {}, pre |-> FALSE,
      n |-> << >>, result |-> "running", boxes |-> << >> ]

Last(p) == log[p][Len(log[p])]

\* The log with its last entry replaced.
Logged(p, e) == [ log EXCEPT ![p] = [ @ EXCEPT ![Len(@)] = e ] ]

\* The last entry after a detection call answered r.
Called(e, r) ==
    [ e EXCEPT !.calls = @ + 1,
               !.errs = IF r.err THEN @ \cup { e.calls + 1 } ELSE @,
               !.n = Append(@, r.n) ]

NoRequest == [ pc |-> "none", image_uris |-> << >>, log |-> << >> ]

Idle ==
    /\ pc = [ p \in Procs |-> "idle" ]
    /\ blobs = [ p \in Procs |-> << >> ]
    /\ image_blobs = [ p \in Procs |-> << >> ]
    /\ image_uris = [ p \in Procs |-> << >> ]
    /\ idx = [ p \in Procs |-> 0 ]
    /\ content = [ p \in Procs |-> Opaque ]
    /\ texts = [ p \in Procs |-> << >> ]
    /\ stream = [ p \in Procs |-> Opaque ]
    /\ error = [ p \in Procs |-> "" ]
    /\ log = [ p \in Procs |-> << >> ]
    /\ run = 1
    /\ prev = NoRequest

Init ==
    /\ bucket \in BucketsUpTo(MaxObjs)
    /\ bucket0 = bucket
    /\ Idle

InitC ==
    /\ bucket \in BucketsUpToC(MaxObjsC)
    /\ bucket0 = bucket
    /\ Idle

\* image_uris after image_uris.insert(0, u).
Inserted(uris, u) == << u >> \o uris

\* image_uris after image_uris.append(u).
Appended(uris, u) == Append(uris, u)

\* The first for loop of get_image_uris: the URLs of the blobs whose name
\* holds the marker, in listing order.
RECURSIVE BoxedUris(_)
BoxedUris(bs) ==
    IF bs = << >> THEN << >>
    ELSE IF IsBoxed(bs[Len(bs)])
         THEN Appended(BoxedUris(SubSeq(bs, 1, Len(bs) - 1)), PublicUrl(bs[Len(bs)]))
         ELSE BoxedUris(SubSeq(bs, 1, Len(bs) - 1))

\* process_blob without its `if texts:` test.
AfterRetryUntested(t) == "draw"

\* Where process_blob goes after the second detection call: on to
\* draw_bounding_boxes when texts is not empty, else it returns None.
AfterRetry(t) == IF t /= << >> THEN "draw" ELSE "loop"

\* get_image_uris up to its second for loop: the listing, its
\* classification, and the URLs of the outputs already there.
GetImageBlobs(p) ==
    /\ pc[p] = "idle"
    /\ LET listing == Sorted(DOMAIN bucket)
       IN  /\ blobs' = [ blobs EXCEPT ![p] = listing ]
           /\ image_blobs' = [ image_blobs EXCEPT ![p] = ImageBlobs(listing) ]
           /\ image_uris' = [ image_uris EXCEPT ![p] = BoxedUris(listing) ]
    /\ idx' = [ idx EXCEPT ![p] = 1 ]
    /\ pc' = [ pc EXCEPT ![p] = "loop" ]
    /\ UNCHANGED << shared, content, texts, stream, error, log, hist >>

\* The second for loop is exhausted: return image_uris.
Return(p) ==
    /\ pc[p] = "loop"
    /\ idx[p] > Len(image_blobs[p])
    /\ pc' = [ pc EXCEPT ![p] = "done" ]
    /\ UNCHANGED << shared, locals, error, log, hist >>

\* process_blob: blob.download_as_bytes() returns the object's bytes.
Download(p) ==
    /\ pc[p] = "loop"
    /\ idx[p] <= Len(image_blobs[p])
    /\ content' = [ content EXCEPT ![p] = bucket[Blob(p)] ]
    /\ log' = [ log EXCEPT ![p] = Append(@, Entry(Blob(p))) ]
    /\ pc' = [ pc EXCEPT ![p] = "detect" ]
    /\ UNCHANGED << shared, blobs, image_blobs, image_uris, idx, texts,
                    stream, error, hist >>

\* process_blob: blob.download_as_bytes() raises; nothing catches it.
DownloadFails(p) ==
    /\ pc[p] = "loop"
    /\ idx[p] <= Len(image_blobs[p])
    /\ log' = [ log EXCEPT ![p] =
                  Append(@, [ Entry(Blob(p)) EXCEPT !.result = "raised" ]) ]
    /\ error' = [ error EXCEPT ![p] = "download" ]
    /\ pc' = [ pc EXCEPT ![p] = "aborted" ]
    /\ UNCHANGED << shared, locals, hist >>

\* process_blob: the first detection call, its error check, texts.
DetectText(p) ==
    /\ pc[p] = "detect"
    /\ LET r == Detect(content[p])
       IN  IF r.err
           THEN /\ error' = [ error EXCEPT ![p] = "vision" ]
                /\ pc' = [ pc EXCEPT ![p] = "aborted" ]
                /\ log' = Logged(p, [ Called(Last(p), r) EXCEPT !.result = "raised" ])
                /\ UNCHANGED texts
           ELSE /\ texts' = [ texts EXCEPT ![p] = Annotations(r) ]
                /\ pc' = [ pc EXCEPT ![p] =
                             IF Annotations(r) = << >> THEN "preprocess" ELSE "draw" ]
                /\ log' = Logged(p, Called(Last(p), r))
                /\ UNCHANGED error
    /\ UNCHANGED << shared, blobs, image_blobs, image_uris, idx, content,
                    stream, hist >>

\* process_blob: preprocess_image_for_ocr(content); Image.open raises on
\* bytes it cannot decode.
Preprocess(p) ==
    /\ pc[p] = "preprocess"
    /\ IF content[p].dec
       THEN /\ pc' = [ pc EXCEPT ![p] = "retry" ]
            /\ log' = Logged(p, [ Last(p) EXCEPT !.pre = TRUE ])
            /\ UNCHANGED error
       ELSE /\ error' = [ error EXCEPT ![p] = "decode" ]
            /\ pc' = [ pc EXCEPT ![p] = "aborted" ]
            /\ log' = Logged(p, [ Last(p) EXCEPT !.pre = TRUE, !.result = "raised" ])
    /\ UNCHANGED << shared, locals, hist >>

\* process_blob: the second detection call, on the preprocessed bytes;
\* its error field is not read.  With no text, process_blob returns None
\* and the loop goes on.
DetectAgain(p) ==
    /\ pc[p] = "retry"
    /\ LET r == Detect(Preprocessed(content[p]))
           t == Annotations(r)
       IN  /\ texts' = [ texts EXCEPT ![p] = t ]
           /\ pc' = [ pc EXCEPT ![p] = AfterRetry(t) ]
           /\ idx' = [ idx EXCEPT ![p] = IF AfterRetry(t) = "loop" THEN @ + 1 ELSE @ ]
           /\ log' = Logged(p, [ Called(Last(p), r) EXCEPT
                                   !.result = IF AfterRetry(t) = "loop"
                                              THEN "none" ELSE @ ])
    /\ UNCHANGED << shared, blobs, image_blobs, image_uris, content, stream,
                    error, hist >>

\* process_blob: draw_bounding_boxes(content, texts); Image.open raises on
\* bytes it cannot decode.
Draw(p) ==
    /\ pc[p] = "draw"
    /\ IF content[p].dec
       THEN /\ stream' = [ stream EXCEPT ![p] = DrawBoundingBoxes(content[p], texts[p]) ]
            /\ pc' = [ pc EXCEPT ![p] = "upload" ]
            /\ UNCHANGED << error, log >>
       ELSE /\ error' = [ error EXCEPT ![p] = "decode" ]
            /\ pc' = [ pc EXCEPT ![p] = "aborted" ]
            /\ log' = Logged(p, [ Last(p) EXCEPT !.result = "raised" ])
            /\ UNCHANGED stream
    /\ UNCHANGED << shared, blobs, image_blobs, image_uris, idx, content,
                    texts, hist >>

\* process_blob: upload_processed_image, then get_image_uris appends the
\* returned public URL.
Upload(p) ==
    /\ pc[p] = "upload"
    /\ bucket' = Uploaded(bucket, Blob(p), stream[p])
    /\ image_uris' = [ image_uris EXCEPT ![p] =
                         Appended(@, PublicUrl(OutputBlobName(Blob(p)))) ]
    /\ idx' = [ idx EXCEPT ![p] = @ + 1 ]
    /\ pc' = [ pc EXCEPT ![p] = "loop" ]
    /\ log' = Logged(p, [ Last(p) EXCEPT !.result = "url",
                                         !.boxes = stream[p].boxes ])
    /\ UNCHANGED << bucket0, blobs, image_blobs, content, texts, stream,
                    error, hist >>

\* The request is over (a page of URLs or a server error); the next GET /
\* starts get_image_uris afresh.
NextRequest(p) ==
    /\ pc[p] \in { "done", "aborted" }
    /\ run < MaxRuns
    /\ run' = run + 1
    /\ prev' = [ pc |-> pc[p], image_uris |-> image_uris[p], log |-> log[p] ]
    /\ bucket0' = bucket
    /\ pc' = [ pc EXCEPT ![p] = "idle" ]
    /\ blobs' = [ blobs EXCEPT ![p] = << >> ]
    /\ image_blobs' = [ image_blobs EXCEPT ![p] = << >> ]
    /\ image_uris' = [ image_uris EXCEPT ![p] = << >> ]
    /\ idx' = [ idx EXCEPT ![p] = 0 ]
    /\ content' = [ content EXCEPT ![p] = Opaque ]
    /\ texts' = [ texts EXCEPT ![p] = << >> ]
    /\ stream' = [ stream EXCEPT ![p] = Opaque ]
    /\ error' = [ error EXCEPT ![p] = "" ]
    /\ log' = [ log EXCEPT ![p] = << >> ]
    /\ UNCHANGED bucket

Step(p) ==
    \/ GetImageBlobs(p)
    \/ Return(p)
    \/ Download(p)
    \/ DownloadFails(p)
    \/ DetectText(p)
    \/ Preprocess(p)
    \/ DetectAgain(p)
    \/ Draw(p)
    \/ Upload(p)

\* Requests served one after the other.
Next == Step(1) \/ NextRequest(1)

Spec == Init /\ [][Next]_vars

\* Two requests served at the same time, their steps interleaved.
NextC == \E p \in Procs : Step(p)

SpecC == InitC /\ [][NextC]_vars


\* ------------------------------------------------------------- claims
Over(p) == pc[p] \in { "done", "aborted" }

\* The entries of a log whose process_blob call returned a URL.
Urls(l) == SelectSeq(l, LAMBDA e : e.result = "url")

\* The inputs for which a request uploaded an output.
UploadedInputs(l) == { l[i].name : i \in { j \in 1..Len(l) : l[j].result = "url" } }

\* An output of the listing is the output of input name: its name is the
\* input's name with the extension replaced by the marker.
HasOutput(name, listing) ==
    \E m \in Range(listing) :
        IsBoxed(m) /\ SplitFirst(m, Marker) = SplitExtRoot(name)

\* C1: two requests in succession, both returning, return the same set of
\* URLs, and no input for which the first uploaded an output is a candidate
\* input of the second (it is not passed to process_blob again).
C1_Idempotent ==
    (run >= 2 /\ prev.pc = "done")
        => /\ \A p \in Procs :
                  (pc[p] /= "idle")
                      => Range(image_blobs[p]) \cap UploadedInputs(prev.log) = {}
           /\ \A p \in Procs :
                  (pc[p] = "done")
                      => Range(image_uris[p]) = Range(prev.image_uris)

\* C2: after the listing, the candidate inputs are exactly the names
\* without the marker, with an allowed extension (whatever its case), of
\* which the listing holds no output; for {a.png, a__boxed.png, b.jpg,
\* notes.txt} they are {b.jpg}.
C2_Classification ==
    \A p \in Procs :
        (pc[p] /= "idle")
            => /\ Range(image_blobs[p]) =
                    { n \in Range(blobs[p]) :
                        /\ ~IsBoxed(n)
                        /\ HasImageExtension(n)
                        /\ ~HasOutput(n, blobs[p]) }
               /\ (Range(blobs[p]) = { a_png, a_boxed, b_jpg, notes_txt })
                      => Range(image_blobs[p]) = { b_jpg }

\* C3: a request never ends on an exception raised by a download or by
\* the decoding of an object's bytes: such an object is skipped.
C3_PerObjectFailure ==
    \A p \in Procs :
        (pc[p] = "aborted") => error[p] \notin { "download", "decode" }

\* C4: once a detection call of a request (the first on the bytes or the
\* second on the preprocessed bytes) has returned a response with its
\* error set, the request is aborted.
C4_DetectionErrorAborts ==
    \A p \in Procs :
        (\E i \in 1..Len(log[p]) : log[p][i].errs /= {})
            => pc[p] = "aborted"

\* C5: at every point of a request, image_uris is the URLs of the objects
\* of the listing whose name holds the marker, in listing order, followed
\* by the URLs of the outputs uploaded so far, in the listing order of
\* their inputs.
C5_Order ==
    \A p \in Procs :
        (pc[p] /= "idle")
            => LET old == SelectSeq(blobs[p], IsBoxed)
                   new == Urls(log[p])
               IN  /\ Len(image_uris[p]) = Len(old) + Len(new)
                   /\ \A i \in 1..Len(old) : image_uris[p][i] = PublicUrl(old[i])
                   /\ \A i \in 1..Len(new) :
                          image_uris[p][Len(old) + i] =
                              PublicUrl(OutputBlobName(new[i].name))
                   /\ \A i, j \in 1..Len(new) :
                          (i < j) => Less(new[i].name, new[j].name)

\* A request returned a list that holds an earlier output's URL and a URL
\* of an output it uploaded.
C5_Witness ==
    /\ pc[1] = "done"
    /\ \E i \in 1..Len(blobs[1]) : IsBoxed(blobs[1][i])
    /\ Urls(log[1]) /= << >>


\* The step of request p is a second detection call that, like the first,
\* returns no fragment.
NoTextTwice(p) ==
    /\ log[p] /= << >>
    /\ Len(log'[p]) = Len(log[p])
    /\ Last(p).n = << 0 >>
    /\ log'[p][Len(log[p])].n = << 0, 0 >>

\* C6: when the first and the second detection call on a candidate input
\* return no fragment, nothing is uploaded, no URL is appended, nothing is
\* raised, and the loop moves on to the next candidate input.
C6_NoTextNoOutput ==
    [][ \A p \in Procs :
          NoTextTwice(p)
              => /\ bucket' = bucket
                 /\ image_uris'[p] = image_uris[p]
                 /\ error'[p] = ""
                 /\ log'[p][Len(log[p])].result = "none"
                 /\ pc'[p] = "loop"
                 /\ idx'[p] = idx[p] + 1 ]_vars

\* A request returned after an input without text, found twice without a
\* fragment, and went on to process a later input.
C6_Witness ==
    /\ pc[1] = "done"
    /\ \E i \in 1..Len(log[1]) :
          /\ log[1][i].n = << 0, 0 >>
          /\ log[1][i].result = "none"
          /\ i < Len(log[1])

\* C7: during a request and after it, every object the bucket held when
\* the request started is still there, with the same content unless its
\* name holds the marker, and every object created or changed is named
\* <base>__boxed.png for an input the request has processed.
C7_InputsKept ==
    /\ \A n \in DOMAIN bucket0 :
          /\ n \in DOMAIN bucket
          /\ ~IsBoxed(n) => bucket[n] = bucket0[n]
    /\ \A n \in DOMAIN bucket :
          (n \notin DOMAIN bucket0 \/ bucket[n] /= bucket0[n])
              => /\ IsBoxed(n)
                 /\ \E i \in 1..Len(log[1]) :
                       /\ ~IsBoxed(log[1][i].name)
                       /\ n = SplitExtRoot(log[1][i].name) \o Marker

\* A request uploaded an output with polygons drawn on it and was then
\* aborted.
C7_Witness ==
    /\ pc[1] = "aborted"
    /\ \E i \in 1..Len(log[1]) :
          /\ log[1][i].result = "url"
          /\ log[1][i].boxes /= << >>

\* C8: for every candidate input whose first detection call returned
\* without error, preprocessing and a second detection call happen exactly
\* when that call returned no fragment: one call when text is found at
\* once, two otherwise.
C8_Fallback ==
    \A p \in Procs : \A i \in 1..Len(log[p]) :
        LET e == log[p][i]
        IN  (e.result /= "running" /\ e.calls >= 1 /\ 1 \notin e.errs)
                => /\ e.pre <=> (e.n[1] = 0)
                   /\ e.calls = (IF e.n[1] = 0 THEN 2 ELSE 1)

\* C9: for every candidate input whose detection result (of the first
\* call, or of the second when the first found nothing) has N >= 1
\* entries, an output is uploaded that is the original image with the
\* polygons of entries 2..N drawn on it, in that order.
C9_FragmentExclusion ==
    \A p \in Procs : \A i \in 1..Len(log[p]) :
        LET e == log[p][i]
            N == IF e.n = << >> THEN 0 ELSE e.n[Len(e.n)]
        IN  (e.result /= "running" /\ N >= 1)
                => /\ e.result = "url"
                   /\ e.boxes = [ k \in 1..(N - 1) |-> k + 1 ]


\* The steps of process_blob and its summary agree: a call that
\* downloaded the bytes ends as ProcessBlob says.
ProcessBlobAgrees ==
    \A p \in Procs : \A i \in 1..Len(log[p]) :
        (log[p][i].result /= "running"
            /\ ~(log[p][i].result = "raised" /\ log[p][i].calls = 0))
            => log[p][i].result = ProcessBlob(bucket0[log[p][i].name])

\* The names in bucket b after one request, served alone, has gone
\* through its first k candidate inputs.
NamesAfter(b, k) ==
    LET c == ImageBlobs(Sorted(DOMAIN b))
    IN  (DOMAIN b) \cup
            { OutputBlobName(c[j]) :
                j \in { i \in 1..k : ProcessBlob(b[c[i]]) = "url" } }

\* The sets of names one request, served alone on bucket b, can leave: it
\* returns after its last candidate input, or is aborted at any one
\* (a failed download), at the latest at the first that makes
\* process_blob raise.
OneRunNames(b) ==
    LET c == ImageBlobs(Sorted(DOMAIN b))
    IN  { NamesAfter(b, k) :
            k \in { m \in 0..Len(c) :
                      \A j \in 1..m : ProcessBlob(b[c[j]]) /= "raised" } }

\* C10 as stated, for two concurrent requests whose list, download, detect
\* and upload steps are interleaved and none of whose downloads fails: when
\* both are over, the bucket holds a set of names that one request served
\* alone could have left, and no input is altered.
C10_SameAsOneRun ==
    (\A p \in Procs : Over(p) /\ error[p] /= "download")
        => /\ DOMAIN bucket \in OneRunNames(bucket0)
           /\ \A n \in DOMAIN bucket0 :
                 ~IsBoxed(n) => (n \in DOMAIN bucket /\ bucket[n] = bucket0[n])

\* C10, amended: under any interleaving of two concurrent requests, no
\* object is removed and no input is altered; every object created or
\* changed is the output <base>__boxed.png of a candidate input of the
\* initial bucket on which process_blob finds text (one object per output
\* name); and when both requests return, the bucket holds exactly the
\* names one request served alone leaves when it returns.
C10_Harmless ==
    LET c == ImageBlobs(Sorted(DOMAIN bucket0))
    IN  /\ \A n \in DOMAIN bucket0 :
              /\ n \in DOMAIN bucket
              /\ ~IsBoxed(n) => bucket[n] = bucket0[n]
        /\ \A n \in DOMAIN bucket :
              (n \notin DOMAIN bucket0 \/ bucket[n] /= bucket0[n])
                  => \E j \in 1..Len(c) :
                        /\ n = SplitExtRoot(c[j]) \o Marker
                        /\ ProcessBlob(bucket0[c[j]]) = "url"
        /\ (\A p \in Procs : pc[p] = "done")
              => DOMAIN bucket = NamesAfter(bucket0, Len(c))

\* Both requests returned, and both uploaded an output, with polygons, for
\* the same input.
C10_Witness ==
    /\ \A p \in Procs : pc[p] = "done"
    /\ \E i \in 1..Len(log[1]) : \E j \in 1..Len(log[2]) :
          /\ log[1][i].name = log[2][j].name
          /\ log[1][i].result = "url"
          /\ log[2][j].result = "url"
          /\ log[1][i].boxes /= << >>

====
